---- MODULE Spec2Model ----
(***************************************************************************)
(* TOON encoder (src/src/encode.ts): the value-to-text transformation      *)
(* encode(value, options).                                                 *)
(*                                                                         *)
(* Text is a sequence of one-character strings, so that quoting, escaping, *)
(* joining and splitting are computed character by character.  A value is  *)
(* a pair <<tag, payload>>:                                                *)
(*   <<"null", 0>>  <<"undef", 0>>  <<"bool", b>>  <<"num", n>>            *)
(*   <<"str", text>>  <<"arr", sequence of values>>                        *)
(*   <<"fn", name>>   (a built-in function, met only as an inherited       *)
(*                     property of an object)                              *)
(*   <<"obj", sequence of <<key text, value>> in Object.entries order>>    *)
(***************************************************************************)
EXTENDS Integers, Sequences, FiniteSets, TLC

VARIABLES value, options, out, pc

vars == <<value, options, out, pc>>

----------------------------------------------------------------------------
(* Text helpers (the JavaScript string primitives the encoder uses).       *)

Digit == {"0", "1", "2", "3", "4", "5", "6", "7", "8", "9"}

\* String.prototype.includes for a single character
Includes(str, c) == \E i \in 1..Len(str) : str[i] = c

\* a character class [...] tested against the string
IncludesAny(str, cs) == \E i \in 1..Len(str) : str[i] \in cs

\* String.prototype.includes for a substring
IncludesSub(str, sub) ==
    \E i \in 1..(Len(str) - Len(sub) + 1) :
        \A j \in 1..Len(sub) : str[i + j - 1] = sub[j]

\* Array.prototype.join
RECURSIVE Join(_, _)
Join(parts, sep) ==
    IF Len(parts) = 0 THEN <<>>
    ELSE IF Len(parts) = 1 THEN parts[1]
    ELSE parts[1] \o sep \o Join(Tail(parts), sep)

\* first index >= i of str that holds no digit (Len(str) + 1 if none)
RECURSIVE SkipDigits(_, _)
SkipDigits(str, i) ==
    IF i <= Len(str) /\ str[i] \in Digit THEN SkipDigits(str, i + 1) ELSE i

\* -? : the index after the optional sign
SkipSign(str) == IF Len(str) >= 1 /\ str[1] = "-" THEN 2 ELSE 1

\* (\.\d+)? from index b: taken only when a digit follows the dot
SkipFraction(str, b) ==
    IF b <= Len(str) /\ str[b] = "." /\ SkipDigits(str, b + 1) > b + 1
    THEN SkipDigits(str, b + 1)
    ELSE b

\* [eE][+-]? from index c, which holds e or E
SkipExponentMark(str, c) ==
    IF c + 1 <= Len(str) /\ str[c + 1] \in {"+", "-"} THEN c + 2 ELSE c + 1

\* ([eE][+-]?\d+)? from index c: taken only when a digit follows the mark
SkipExponent(str, c) ==
    IF /\ c <= Len(str)
       /\ str[c] \in {"e", "E"}
       /\ SkipDigits(str, SkipExponentMark(str, c)) > SkipExponentMark(str, c)
    THEN SkipDigits(str, SkipExponentMark(str, c))
    ELSE c

\* /^-?\d+(\.\d+)?([eE][+-]?\d+)?$/
IsNumericLiteral(str) ==
    /\ SkipDigits(str, SkipSign(str)) > SkipSign(str)
    /\ SkipExponent(str, SkipFraction(str, SkipDigits(str, SkipSign(str)))) = Len(str) + 1

\* /^(true|false|null|-?\d+(\.\d+)?([eE][+-]?\d+)?)$/
IsLiteralShaped(str) ==
    \/ str = <<"t", "r", "u", "e">>
    \/ str = <<"f", "a", "l", "s", "e">>
    \/ str = <<"n", "u", "l", "l">>
    \/ IsNumericLiteral(str)

\* String(n) for an integer n
RECURSIVE NatToStr(_)
NatToStr(n) ==
    LET d == <<"0", "1", "2", "3", "4", "5", "6", "7", "8", "9">>[(n % 10) + 1]
    IN  IF n < 10 THEN <<d>> ELSE NatToStr(n \div 10) \o <<d>>

NumToStr(n) == IF n < 0 THEN <<"-">> \o NatToStr(0 - n) ELSE NatToStr(n)

----------------------------------------------------------------------------
(* Values and options.                                                     *)

Tag(v) == v[1]
Payload(v) == v[2]

Null == <<"null", 0>>
Undef == <<"undef", 0>>
Bool(b) == <<"bool", b>>
Num(n) == <<"num", n>>
Str(s) == <<"str", s>>
Arr(items) == <<"arr", items>>
Obj(entries) == <<"obj", entries>>

Fn(name) == <<"fn", name>>

isArray(v) == Tag(v) = "arr"
isPlainObject(v) == Tag(v) = "obj"

\* Object.keys
Keys(entries) == [i \in 1..Len(entries) |-> entries[i][1]]

\* key in obj
HasKey(entries, key) == \E i \in 1..Len(entries) : entries[i][1] = key

\* obj[key]: undefined when the key is absent
Get(entries, key) ==
    IF HasKey(entries, key)
    THEN entries[CHOOSE i \in 1..Len(entries) : entries[i][1] = key][2]
    ELSE Undef

\* the function-valued properties every plain object inherits from
\* Object.prototype (the accessor __proto__ is left out)
PrototypeKeys ==
    {<<"c", "o", "n", "s", "t", "r", "u", "c", "t", "o", "r">>,
     <<"t", "o", "S", "t", "r", "i", "n", "g">>,
     <<"v", "a", "l", "u", "e", "O", "f">>,
     <<"h", "a", "s", "O", "w", "n", "P", "r", "o", "p", "e", "r", "t", "y">>,
     <<"_", "_", "d", "e", "f", "i", "n", "e", "G", "e", "t", "t", "e", "r", "_", "_">>,
     <<"_", "_", "l", "o", "o", "k", "u", "p", "G", "e", "t", "t", "e", "r", "_", "_">>}

\* key in obj: own and inherited properties
In(entries, key) == HasKey(entries, key) \/ key \in PrototypeKeys

\* obj[key] through the prototype chain
Lookup(entries, key) ==
    IF HasKey(entries, key) THEN Get(entries, key)
    ELSE IF key \in PrototypeKeys
         THEN Fn(IF key = <<"c", "o", "n", "s", "t", "r", "u", "c", "t", "o", "r">>
                 THEN <<"O", "b", "j", "e", "c", "t">> ELSE key)
         ELSE Undef

----------------------------------------------------------------------------
(* Quoting Oracle and Primitive Encoder.                                   *)

Structural == {":", "[", "]", "{", "}"}

\* faulty variant: the literal-shape test of line 29 is left out
needsQuotingNoLiteral(str, delimiter) ==
    IF str = <<>> THEN TRUE
    ELSE IF delimiter = "\t"
         THEN IncludesAny(str, {"\t", "|"} \cup Structural)
         ELSE \/ IncludesAny(str, {IF delimiter = "," THEN "," ELSE "|"} \cup Structural)
              \/ Includes(str, " ")

\* faulty variant: a space asks for quotes under every delimiter
needsQuotingSpaceAlways(str, delimiter) ==
    IF str = <<>> THEN TRUE
    ELSE \/ IncludesAny(str, (IF delimiter = "\t" THEN {"\t", "|"}
                              ELSE {IF delimiter = "," THEN "," ELSE "|"}) \cup Structural)
         \/ Includes(str, " ")
         \/ IsLiteralShaped(str)

needsQuoting(str, delimiter) ==
    IF str = <<>> THEN TRUE
    ELSE IF delimiter = "\t"
         THEN \/ IncludesAny(str, {"\t", "|"} \cup Structural)
              \/ IsLiteralShaped(str)
         ELSE \/ IncludesAny(str, {IF delimiter = "," THEN "," ELSE "|"} \cup Structural)
              \/ Includes(str, " ")
              \/ IsLiteralShaped(str)

RECURSIVE escapeString(_)
escapeString(str) ==
    IF str = <<>> THEN <<>>
    ELSE (IF Head(str) = "\"" THEN <<"\\", "\"">> ELSE <<Head(str)>>)
         \o escapeString(Tail(str))

Quoted(str) == <<"\"">> \o escapeString(str) \o <<"\"">>

\* String(value) for a value that is neither null, boolean, number nor string:
\* Array.prototype.toString joins the elements' strings with "," (null and
\* undefined as the empty text); a plain object is "[object Object]"
RECURSIVE JsString(_)
JsString(v) ==
    CASE Tag(v) = "null" -> <<"n", "u", "l", "l">>
      [] Tag(v) = "undef" -> <<"u", "n", "d", "e", "f", "i", "n", "e", "d">>
      [] Tag(v) = "bool" -> IF Payload(v) THEN <<"t", "r", "u", "e">>
                            ELSE <<"f", "a", "l", "s", "e">>
      [] Tag(v) = "num" -> NumToStr(Payload(v))
      [] Tag(v) = "str" -> Payload(v)
      [] Tag(v) = "fn" ->
            <<"f", "u", "n", "c", "t", "i", "o", "n", " ">> \o Payload(v)
            \o <<"(", ")", " ", "{", " ", "[", "n", "a", "t", "i", "v", "e", " ",
                 "c", "o", "d", "e", "]", " ", "}">>
      [] Tag(v) = "arr" ->
            Join([i \in 1..Len(Payload(v)) |->
                    IF Tag(Payload(v)[i]) \in {"null", "undef"} THEN <<>>
                    ELSE JsString(Payload(v)[i])], <<",">>)
      [] OTHER -> <<"[", "o", "b", "j", "e", "c", "t", " ",
                    "O", "b", "j", "e", "c", "t", "]">>

\* options.delimiter || ','
PrimitiveDelimiter(opts) == IF opts.delimiter = "unset" THEN "," ELSE opts.delimiter

\* faulty variant: null follows the compactBooleans flag
encodePrimitiveCoupled(v, opts) ==
    CASE Tag(v) \in {"null", "undef"} ->
            IF opts.compactBooleans THEN <<"~">> ELSE <<"n", "u", "l", "l">>
      [] Tag(v) = "bool" ->
            IF opts.compactBooleans
            THEN (IF Payload(v) THEN <<"1">> ELSE <<"0">>)
            ELSE (IF Payload(v) THEN <<"t", "r", "u", "e">>
                  ELSE <<"f", "a", "l", "s", "e">>)
      [] Tag(v) = "num" -> NumToStr(Payload(v))
      [] Tag(v) = "str" ->
            IF needsQuoting(Payload(v), PrimitiveDelimiter(opts))
            THEN Quoted(Payload(v))
            ELSE Payload(v)
      [] OTHER -> JsString(v)

\* faulty variant: a value of another type raises instead of being coerced
encodePrimitiveRaising(v, opts) ==
    CASE Tag(v) \in {"null", "undef"} ->
            IF opts.compactNull THEN <<"~">> ELSE <<"n", "u", "l", "l">>
      [] Tag(v) = "bool" ->
            IF opts.compactBooleans
            THEN (IF Payload(v) THEN <<"1">> ELSE <<"0">>)
            ELSE (IF Payload(v) THEN <<"t", "r", "u", "e">>
                  ELSE <<"f", "a", "l", "s", "e">>)
      [] Tag(v) = "num" -> NumToStr(Payload(v))
      [] Tag(v) = "str" ->
            IF needsQuoting(Payload(v), PrimitiveDelimiter(opts))
            THEN Quoted(Payload(v))
            ELSE Payload(v)
      [] OTHER -> <<"TypeError">>

encodePrimitive(v, opts) ==
    CASE Tag(v) \in {"null", "undef"} ->
            IF opts.compactNull THEN <<"~">> ELSE <<"n", "u", "l", "l">>
      [] Tag(v) = "bool" ->
            IF opts.compactBooleans
            THEN (IF Payload(v) THEN <<"1">> ELSE <<"0">>)
            ELSE (IF Payload(v) THEN <<"t", "r", "u", "e">>
                  ELSE <<"f", "a", "l", "s", "e">>)
      [] Tag(v) = "num" -> NumToStr(Payload(v))
      [] Tag(v) = "str" ->
            IF needsQuoting(Payload(v), PrimitiveDelimiter(opts))
            THEN Quoted(Payload(v))
            ELSE Payload(v)
      [] OTHER -> JsString(v)

----------------------------------------------------------------------------
(* Key Shortener and Flattener.                                            *)

\* the context-gated table, then the general table; a key of neither table
\* is returned unchanged.  The tables are plain objects, so a key that names
\* an inherited function finds that function, which then serves as the key
\* in its string form
shortenKey(key, context) ==
    LET items    == <<"i", "t", "e", "m", "s">>
        item     == <<"i", "t", "e", "m">>
        sku      == <<"s", "k", "u">>
        quantity == <<"q", "u", "a", "n", "t", "i", "t", "y">>
        price    == <<"p", "r", "i", "c", "e">>
        customer == <<"c", "u", "s", "t", "o", "m", "e", "r">>
        orderId  == <<"o", "r", "d", "e", "r", "I", "d">>
        status   == <<"s", "t", "a", "t", "u", "s">>
        total    == <<"t", "o", "t", "a", "l">>
        name     == <<"n", "a", "m", "e">>
        email    == <<"e", "m", "a", "i", "l">>
    IN  IF Includes(context, "i") /\ key \in {items, item, sku, quantity, price}
        THEN CASE key = items -> <<"i">>
               [] key = item -> <<"i">>
               [] key = sku -> <<"s">>
               [] key = quantity -> <<"q">>
               [] OTHER -> <<"p">>
        ELSE CASE key = items -> <<"i">>
               [] key = item -> <<"i">>
               [] key = customer -> <<"c">>
               [] key = quantity -> <<"q">>
               [] key = price -> <<"p">>
               [] key = orderId -> <<"o", "i", "d">>
               [] key = status -> <<"s", "t">>
               [] key = total -> <<"t">>
               [] key = name -> <<"n">>
               [] key = email -> <<"e">>
               [] key = sku -> sku
               [] key \in PrototypeKeys -> JsString(Lookup(<<>>, key))
               [] OTHER -> key

\* an integer-like property name ("0", "7", "12"): JavaScript enumerates these
\* first, in ascending numeric order, whatever the insertion order
IsArrayIndex(key) ==
    /\ Len(key) >= 1
    /\ \A i \in 1..Len(key) : key[i] \in Digit
    /\ (Len(key) = 1 \/ key[1] # "0")

RECURSIVE StrToNat(_)
StrToNat(key) ==
    IF key = <<>> THEN 0
    ELSE 10 * StrToNat(SubSeq(key, 1, Len(key) - 1))
         + (CHOOSE d \in 0..9 : NatToStr(d) = <<key[Len(key)]>>)

\* a new entry placed after the first `before` entries
InsertAfter(entries, before, entry) ==
    SubSeq(entries, 1, before) \o <<entry>> \o SubSeq(entries, before + 1, Len(entries))

\* faulty variant: an existing key keeps its value
PutKeepFirst(entries, key, v) ==
    IF HasKey(entries, key) THEN entries
    ELSE IF IsArrayIndex(key)
         THEN InsertAfter(entries,
                          Cardinality({i \in 1..Len(entries) :
                                /\ IsArrayIndex(entries[i][1])
                                /\ StrToNat(entries[i][1]) < StrToNat(key)}),
                          <<key, v>>)
         ELSE Append(entries, <<key, v>>)

\* flattened[key] = v: an existing key keeps its place and takes the new value
Put(entries, key, v) ==
    IF HasKey(entries, key)
    THEN [i \in 1..Len(entries) |->
            IF entries[i][1] = key THEN <<key, v>> ELSE entries[i]]
    ELSE IF IsArrayIndex(key)
         THEN InsertAfter(entries,
                          Cardinality({i \in 1..Len(entries) :
                                /\ IsArrayIndex(entries[i][1])
                                /\ StrToNat(entries[i][1]) < StrToNat(key)}),
                          <<key, v>>)
         ELSE Append(entries, <<key, v>>)

\* Object.assign(target, source)
RECURSIVE Assign(_, _)
Assign(target, source) ==
    IF source = <<>> THEN target
    ELSE Assign(Put(target, source[1][1], source[1][2]), Tail(source))

RECURSIVE flattenObject(_, _, _)
RECURSIVE FlattenEntries(_, _, _, _)
RECURSIVE FlattenEntry(_, _, _, _)
RECURSIVE FlattenItems(_, _, _, _, _)
RECURSIVE FlattenSubItems(_, _, _, _, _)

\* item.forEach((subItem, subIndex) => ...) from position j on
FlattenSubItems(flattened, subItems, j, itemKey, maxArrayDepth) ==
    IF j > Len(subItems) THEN flattened
    ELSE LET subItem == subItems[j]
             flatKey == itemKey \o <<"_">> \o NatToStr(j - 1)
             next == IF isPlainObject(subItem)
                     THEN Assign(flattened,
                                 flattenObject(Payload(subItem), flatKey, maxArrayDepth - 1))
                     ELSE Put(flattened, flatKey, subItem)
         IN  FlattenSubItems(next, subItems, j + 1, itemKey, maxArrayDepth)

\* value.forEach((item, index) => ...) from position i on
FlattenItems(flattened, items, i, newKey, maxArrayDepth) ==
    IF i > Len(items) THEN flattened
    ELSE LET item == items[i]
             itemKey == newKey \o NatToStr(i - 1)
             next == IF isPlainObject(item)
                     THEN Assign(flattened,
                                 flattenObject(Payload(item), itemKey, maxArrayDepth - 1))
                     ELSE IF isArray(item)
                     THEN FlattenSubItems(flattened, Payload(item), 1, itemKey, maxArrayDepth)
                     ELSE Put(flattened, itemKey, item)
         IN  FlattenItems(next, items, i + 1, newKey, maxArrayDepth)

\* const newKey = prefix ? `${prefix}_${shortKey}` : shortKey
NewKey(prefix, shortKey) ==
    IF prefix # <<>> THEN prefix \o <<"_">> \o shortKey ELSE shortKey

\* the body of the loop over Object.entries(obj), for the value v under newKey
FlattenEntry(flattened, newKey, v, maxArrayDepth) ==
    IF isArray(v) /\ Len(Payload(v)) > 0 /\ maxArrayDepth > 0
    THEN FlattenItems(flattened, Payload(v), 1, newKey, maxArrayDepth)
    ELSE IF isPlainObject(v)
    THEN Assign(flattened, flattenObject(Payload(v), newKey, maxArrayDepth))
    ELSE Put(flattened, newKey, v)

\* the loop over Object.entries(obj)
FlattenEntries(flattened, entries, prefix, maxArrayDepth) ==
    IF entries = <<>> THEN flattened
    ELSE FlattenEntries(FlattenEntry(flattened,
                                     NewKey(prefix, shortenKey(entries[1][1], prefix)),
                                     entries[1][2], maxArrayDepth),
                        Tail(entries), prefix, maxArrayDepth)

flattenObject(entries, prefix, maxArrayDepth) ==
    FlattenEntries(<<>>, entries, prefix, maxArrayDepth)

\* the default of flattenObject's maxArrayDepth parameter
DefaultMaxArrayDepth == 10

----------------------------------------------------------------------------
(* Uniformity Detector, tabular renderer, Array and Object Encoders.       *)

IsPrimitive(v) == Tag(v) \in {"null", "undef", "str", "num", "bool"}

\* faulty variant: the values of the objects are not looked at
isUniformAnyValues(items) ==
    /\ Len(items) # 0
    /\ \A i \in 1..Len(items) : isPlainObject(items[i])
    /\ LET keys == Keys(Payload(items[1]))
       IN  \A i \in 1..Len(items) :
                /\ Len(Payload(items[i])) = Len(keys)
                /\ \A k \in 1..Len(keys) : HasKey(Payload(items[i]), keys[k])

\* the verdict's isUniform field
isUniform(items) ==
    /\ Len(items) # 0
    /\ \A i \in 1..Len(items) : isPlainObject(items[i])
    /\ LET keys == Keys(Payload(items[1]))
       IN  /\ \A i \in 1..Len(items) :
                /\ Len(Payload(items[i])) = Len(keys)
                /\ \A k \in 1..Len(keys) : HasKey(Payload(items[i]), keys[k])
           /\ \A i \in 1..Len(items) :
                \A k \in 1..Len(keys) : IsPrimitive(Get(Payload(items[i]), keys[k]))

\* the verdict's keys field (present only when uniform)
uniformKeys(items) == Keys(Payload(items[1]))

\* isUniformObjectArray(arr): the verdict has no keys when it is negative
isUniformObjectArray(items) ==
    IF isUniform(items)
    THEN [isUniform |-> TRUE, keys |-> uniformKeys(items)]
    ELSE [isUniform |-> FALSE]

\* options.delimiter !== undefined ? options.delimiter : '\t'
TabularDelimiter(opts) == IF opts.delimiter = "unset" THEN "\t" ELSE opts.delimiter

\* encoded.slice(1, -1)
Slice1(str) == IF Len(str) <= 2 THEN <<>> ELSE SubSeq(str, 2, Len(str) - 1)

\* one cell: the primitive encoding, with the surrounding quotes removed when
\* the text between them has no tab, newline or quote and is no literal
\* faulty variant: the literal shapes are not looked at
CanStandBareAnyShape(unquoted) ==
    /\ ~Includes(unquoted, "\t")
    /\ ~Includes(unquoted, "\n")
    /\ ~Includes(unquoted, "\"")

\* the text between the quotes may stand bare in a tab-separated cell
CanStandBare(unquoted) ==
    /\ ~Includes(unquoted, "\t")
    /\ ~Includes(unquoted, "\n")
    /\ ~Includes(unquoted, "\"")
    /\ ~IsNumericLiteral(unquoted)
    /\ unquoted # <<"t", "r", "u", "e">>
    /\ unquoted # <<"f", "a", "l", "s", "e">>
    /\ unquoted # <<"n", "u", "l", "l">>

\* an encoded primitive with its surrounding quotes removed where they are
\* not needed
RelaxQuotes(encoded) ==
    IF /\ Len(encoded) >= 1
       /\ encoded[1] = "\""
       /\ encoded[Len(encoded)] = "\""
       /\ CanStandBare(Slice1(encoded))
    THEN Slice1(encoded)
    ELSE encoded

\* one cell: the primitive encoding under the tabular delimiter, relaxed
TabularCell(v, opts) ==
    RelaxQuotes(encodePrimitive(v, [opts EXCEPT !.delimiter = TabularDelimiter(opts)]))

\* faulty variant: the cells follow the row's own key order
TabularRowOwnOrder(entries, keys, opts) ==
    Join([k \in 1..Len(entries) |-> TabularCell(entries[k][2], opts)],
         <<TabularDelimiter(opts)>>)

TabularRow(entries, keys, opts) ==
    Join([k \in 1..Len(keys) |-> TabularCell(Get(entries, keys[k]), opts)],
         <<TabularDelimiter(opts)>>)

\* faulty variant: the count-and-keys header is written for every array
encodeTabularArrayAlwaysHeader(rows, keys, keyName, opts) ==
    keyName \o <<"[">> \o NatToStr(Len(rows)) \o <<"]", "{">>
    \o Join(keys, <<",">>) \o <<"}", ":", "\n">>
    \o Join([i \in 1..Len(rows) |-> TabularRow(rows[i], keys, opts)], <<"\n">>)

\* rows: a sequence of entry lists (one per object of the array)
encodeTabularArray(rows, keys, keyName, opts) ==
    LET dataHeader == Join(keys, <<TabularDelimiter(opts)>>)
        body == Join([i \in 1..Len(rows) |-> TabularRow(rows[i], keys, opts)], <<"\n">>)
    IN  IF keyName # <<>>
        THEN keyName \o <<"[">> \o NatToStr(Len(rows)) \o <<"]", "{">>
             \o Join(keys, <<",">>) \o <<"}", ":", "\n">> \o body
        ELSE dataHeader \o <<"\n">> \o body

\* Array.from(allKeysSet): the keys of all flattened rows, first seen first
RECURSIVE AllKeys(_, _)
AllKeys(flattened, seen) ==
    IF flattened = <<>> THEN seen
    ELSE LET ks == Keys(flattened[1])
             fresh == SelectSeq(ks, LAMBDA k : \A j \in 1..Len(seen) : seen[j] # k)
         IN  AllKeys(Tail(flattened), seen \o fresh)

\* result[key] = key in obj ? obj[key] : null, for every key of allKeys
Backfill(entries, allKeys) ==
    [k \in 1..Len(allKeys) |->
        <<allKeys[k], IF In(entries, allKeys[k]) THEN Lookup(entries, allKeys[k]) ELSE Null>>]

\* the flatten branch once every item is flattened: every row backfilled to
\* the union of the keys, then rendered as a table
encodeFlattened(flattened, keyName, opts) ==
    encodeTabularArray([i \in 1..Len(flattened) |->
                           Backfill(flattened[i], AllKeys(flattened, <<>>))],
                       AllKeys(flattened, <<>>), keyName, opts)

RECURSIVE encodeArray(_, _, _)
RECURSIVE encodeObject(_, _)

\* faulty variant: readable mode writes a colon after the count ([3]: a, b)
encodeListColon(items, opts) ==
    LET separator == IF opts.readable THEN <<",", " ">> ELSE <<",">>
        spaceAfterCount == IF opts.readable THEN <<":", " ">> ELSE <<>>
        values == [i \in 1..Len(items) |->
                     IF isArray(items[i]) THEN encodeArray(Payload(items[i]), <<>>, opts)
                     ELSE IF isPlainObject(items[i])
                     THEN <<"{">> \o encodeObject(Payload(items[i]), opts) \o <<"}">>
                     ELSE encodePrimitive(items[i], opts)]
    IN  <<"[">> \o NatToStr(Len(items)) \o <<"]">> \o spaceAfterCount
        \o Join(values, separator)

\* faulty variant: an object element is written without its braces
encodeListBare(items, opts) ==
    LET separator == IF opts.readable THEN <<",", " ">> ELSE <<",">>
        spaceAfterCount == IF opts.readable THEN <<" ">> ELSE <<>>
        values == [i \in 1..Len(items) |->
                     IF isArray(items[i]) THEN encodeArray(Payload(items[i]), <<>>, opts)
                     ELSE IF isPlainObject(items[i])
                     THEN encodeObject(Payload(items[i]), opts)
                     ELSE encodePrimitive(items[i], opts)]
    IN  <<"[">> \o NatToStr(Len(items)) \o <<"]">> \o spaceAfterCount
        \o Join(values, separator)

\* the list form: [N] and the elements joined by the separator
encodeList(items, opts) ==
    LET separator == IF opts.readable THEN <<",", " ">> ELSE <<",">>
        spaceAfterCount == IF opts.readable THEN <<" ">> ELSE <<>>
        values == [i \in 1..Len(items) |->
                     IF isArray(items[i]) THEN encodeArray(Payload(items[i]), <<>>, opts)
                     ELSE IF isPlainObject(items[i])
                     THEN <<"{">> \o encodeObject(Payload(items[i]), opts) \o <<"}">>
                     ELSE encodePrimitive(items[i], opts)]
    IN  <<"[">> \o NatToStr(Len(items)) \o <<"]">> \o spaceAfterCount
        \o Join(values, separator)

\* faulty variant: a uniform array is a table even when tabular is off
encodeArrayAlwaysTabular(items, keyName, opts) ==
    IF Len(items) = 0 THEN <<"[", "0", "]">>
    ELSE IF opts.tabular /\ opts.flatten /\ \A i \in 1..Len(items) : isPlainObject(items[i])
    THEN encodeFlattened([i \in 1..Len(items) |->
                             flattenObject(Payload(items[i]), <<>>, DefaultMaxArrayDepth)],
                         keyName, opts)
    ELSE IF isUniformObjectArray(items).isUniform
    THEN encodeTabularArray([i \in 1..Len(items) |-> Payload(items[i])],
                            isUniformObjectArray(items).keys, keyName, opts)
    ELSE encodeList(items, opts)

\* faulty variant: the empty array keeps the colon ([0]:)
encodeArrayEmptyColon(items, keyName, opts) ==
    IF Len(items) = 0 THEN <<"[", "0", "]", ":">>
    ELSE IF opts.tabular /\ opts.flatten /\ \A i \in 1..Len(items) : isPlainObject(items[i])
    THEN encodeFlattened([i \in 1..Len(items) |->
                             flattenObject(Payload(items[i]), <<>>, DefaultMaxArrayDepth)],
                         keyName, opts)
    ELSE IF opts.tabular /\ isUniformObjectArray(items).isUniform
    THEN encodeTabularArray([i \in 1..Len(items) |-> Payload(items[i])],
                            isUniformObjectArray(items).keys, keyName, opts)
    ELSE encodeList(items, opts)

encodeArray(items, keyName, opts) ==
    IF Len(items) = 0 THEN <<"[", "0", "]">>
    ELSE IF opts.tabular /\ opts.flatten /\ \A i \in 1..Len(items) : isPlainObject(items[i])
    THEN encodeFlattened([i \in 1..Len(items) |->
                             flattenObject(Payload(items[i]), <<>>, DefaultMaxArrayDepth)],
                         keyName, opts)
    ELSE IF opts.tabular /\ isUniformObjectArray(items).isUniform
    THEN encodeTabularArray([i \in 1..Len(items) |-> Payload(items[i])],
                            isUniformObjectArray(items).keys, keyName, opts)
    ELSE encodeList(items, opts)

\* the key of a pair: quoted when it has a space or needsQuoting(key) says so
\* (needsQuoting's own default delimiter, the tab, applies)
encodedKey(key) ==
    IF Includes(key, " ") \/ needsQuoting(key, "\t") THEN Quoted(key) ELSE key

\* an array-valued entry: arrayStr alone when it looks like a table that
\* carries its own header, else the key followed by arrayStr
keyedArray(key, arrayStr) ==
    IF /\ Includes(arrayStr, "\n")
       /\ Includes(arrayStr, "{")
       /\ IncludesSub(arrayStr, <<"}", ":">>)
    THEN arrayStr
    ELSE encodedKey(key) \o arrayStr

\* an object-valued entry: the key alone when the nested text is empty
keyedObject(key, nested) ==
    IF nested = <<>> THEN encodedKey(key)
    ELSE encodedKey(key) \o <<"{">> \o nested \o <<"}">>

\* faulty variant: a space follows the colon whatever options.readable is
encodePairSpaced(key, v, opts) ==
    IF isArray(v) THEN keyedArray(key, encodeArray(Payload(v), key, opts))
    ELSE IF isPlainObject(v) THEN keyedObject(key, encodeObject(Payload(v), opts))
    ELSE encodedKey(key) \o <<":", " ">> \o encodePrimitive(v, opts)

\* one entry of encodeObject's pairs
encodePair(key, v, opts) ==
    IF isArray(v) THEN keyedArray(key, encodeArray(Payload(v), key, opts))
    ELSE IF isPlainObject(v) THEN keyedObject(key, encodeObject(Payload(v), opts))
    ELSE encodedKey(key) \o <<":">> \o (IF opts.readable THEN <<" ">> ELSE <<>>)
         \o encodePrimitive(v, opts)

encodeObject(entries, opts) ==
    IF Len(entries) = 0 THEN <<>>
    ELSE Join([i \in 1..Len(entries) |-> encodePair(entries[i][1], entries[i][2], opts)],
              IF opts.readable THEN <<",", " ">> ELSE <<",">>)

encode(v, opts) ==
    IF Tag(v) \in {"null", "undef"}
    THEN (IF opts.compactNull THEN <<"~">> ELSE <<"n", "u", "l", "l">>)
    ELSE IF isArray(v) THEN encodeArray(Payload(v), <<>>, opts)
    ELSE IF isPlainObject(v) THEN encodeObject(Payload(v), opts)
    ELSE encodePrimitive(v, opts)

----------------------------------------------------------------------------
(* Inputs: the values and option records encode is called with.            *)

\* EncodeOptions; delimiter "unset" is an absent field, an absent boolean
\* field reads as false and an absent tabular as true (tabular !== false)
Options ==
    [compactBooleans : BOOLEAN, compactNull : BOOLEAN, readable : BOOLEAN,
     delimiter : {"unset", ",", "\t", "|"}, tabular : BOOLEAN, flatten : BOOLEAN]

\* encode(value): options = {}
DefaultOptions ==
    [compactBooleans |-> FALSE, compactNull |-> FALSE, readable |-> FALSE,
     delimiter |-> "unset", tabular |-> TRUE, flatten |-> FALSE]

MaxDepth == 3
MaxRepeat == 2

TextAB == <<"a", "b">>
TextComma == <<"a", ",", "b">>
TextSpace == <<"a", " ", "b">>
TextBlock == <<"{", "}", ":", "\n">>

KeyK == <<"k">>
KeyName == <<"n", "a", "m", "e">>
KeySpace == <<"m", "y", " ", "k">>
KeyComma == <<"a", ",", "b">>
KeyEmpty == <<>>

ScalarPool ==
    {Null, Undef, Bool(TRUE), Bool(FALSE), Num(7), Num(0 - 12),
     Str(TextAB), Str(TextComma), Str(TextSpace), Str(TextBlock)}

LeafPool ==
    {Null, Undef, Bool(TRUE), Bool(FALSE), Num(7),
     Str(TextAB), Str(TextComma), Str(TextSpace), Str(TextBlock)}

KeyPool == {KeyK, KeyName, KeySpace, KeyComma, KeyEmpty}

\* the containers built around one value: arrays of 1..MaxRepeat copies of
\* it, the array of it and a number, and objects holding it under each key
Wraps(v) ==
    {Arr([i \in 1..n |-> v]) : n \in 1..MaxRepeat}
    \cup {Arr(<<v, Num(7)>>)}
    \cup {Obj(<<<<k, v>>>>) : k \in KeyPool}
    \cup {Obj(<<<<KeyK, Num(7)>>, <<KeyName, v>>>>)}

\* the containers built around a value that is already two containers deep
SpineWraps(v) ==
    {Arr(<<v>>), Obj(<<<<KeyK, v>>>>), Obj(<<<<KeyEmpty, v>>>>)}

RECURSIVE Level(_)
Level(d) ==
    IF d = 0 THEN LeafPool
    ELSE IF d <= 2
    THEN {Arr(<<>>), Obj(<<>>)} \cup UNION {Wraps(v) : v \in Level(d - 1)}
    ELSE UNION {SpineWraps(v) : v \in Level(d - 1)}

\* the shapes of the repository's tests (src/unnamed/part_000), with the
\* texts of the pools: a keyed table whose rows list the keys in different
\* orders, a list of objects that hold a list, a list of objects that hold an
\* object, a list of objects that hold a table
Fixtures ==
    {Obj(<<<<KeyK, Arr(<<Obj(<<<<KeyName, Str(TextAB)>>, <<KeyK, Num(7)>>>>),
                         Obj(<<<<KeyK, Num(0 - 12)>>, <<KeyName, Str(TextSpace)>>>>)>>)>>>>),
     Obj(<<<<KeyK, Arr(<<Obj(<<<<KeyK, Num(7)>>, <<KeyName, Arr(<<Str(TextAB)>>)>>>>),
                         Obj(<<<<KeyK, Num(0)>>, <<KeyName, Arr(<<Str(TextComma)>>)>>>>)>>)>>>>),
     Obj(<<<<KeyK, Arr(<<Obj(<<<<KeyK, Num(7)>>,
                              <<KeyName, Obj(<<<<KeyName, Str(TextAB)>>>>)>>>>)>>)>>>>),
     Obj(<<<<KeyK, Arr(<<Obj(<<<<KeyName,
                                Arr(<<Obj(<<<<KeyK, Num(7)>>>>)>>)>>>>)>>)>>>>)}

Values == ScalarPool \cup Fixtures \cup UNION {Level(d) : d \in 0..MaxDepth}

----------------------------------------------------------------------------
(* The call encode(value, options).                                        *)

Init ==
    /\ value \in Values
    /\ options = DefaultOptions
    /\ out = <<>>
    /\ pc = "ready"

\* one call of encode, with an options record of opts
EncodeWith(opts) ==
    /\ pc = "ready"
    /\ \E o \in opts :
        /\ options' = o
        /\ out' = encode(value, o)
    /\ pc' = "done"
    /\ UNCHANGED value

EncodeCall == EncodeWith(Options)

Next == EncodeCall

Spec == Init /\ [][Next]_vars

----------------------------------------------------------------------------
(* encode on strings: every text over Alphabet up to MaxStrLen characters  *)
(* and the literal-shaped texts, as the top-level value and as the value   *)
(* of the entry k.                                                         *)

MaxStrLen == 3

Alphabet == {"a", ",", "|", "\t", " ", ":", "[", "}", "\"", "\n", "1", "~"}

LiteralPool ==
    {<<"t", "r", "u", "e">>, <<"f", "a", "l", "s", "e">>, <<"n", "u", "l", "l">>,
     <<"T", "r", "u", "e">>, <<"n", "u", "l">>, <<"t", "r", "u", "e", "1">>,
     <<"-", "1">>, <<"1", ".", "5">>, <<"1", "e", "5">>, <<"1", "E", "-", "5">>,
     <<"-", "1", ".", "5", "e", "+", "1">>,
     <<"1", ".">>, <<".", "5">>, <<"1", "e">>, <<"-">>, <<"1", "e", "+">>,
     <<"+", "1">>, <<"1", ".", "5", ".", "1">>,
     <<"]">>, <<"{">>, <<"a", "\\", "\"">>}

Texts ==
    LiteralPool \cup UNION {[1..n -> Alphabet] : n \in 0..MaxStrLen}

StrValues == {Str(s) : s \in Texts} \cup {Obj(<<<<KeyK, Str(s)>>>>) : s \in Texts}

\* the options a scalar's rendering can depend on
ScalarOptions == {o \in Options : o.tabular /\ ~o.flatten}

InitStr ==
    /\ value \in StrValues
    /\ options = DefaultOptions
    /\ out = <<>>
    /\ pc = "ready"

EncodeStrCall == EncodeWith(ScalarOptions)

NextStr == EncodeStrCall

SpecStr == InitStr /\ [][NextStr]_vars

----------------------------------------------------------------------------
(* encode on keys: every text as the key of a single entry whose value is  *)
(* a scalar, an object, a list-form array or a uniform array.              *)

KeyedValues ==
    {Num(7), Obj(<<>>), Obj(<<<<KeyK, Num(7)>>>>), Arr(<<>>), Arr(<<Num(7)>>),
     Arr(<<Obj(<<<<KeyK, Num(7)>>>>)>>)}

KeyValues == {Obj(<<<<key, v>>>>) : key \in Texts, v \in KeyedValues}

InitKey ==
    /\ value \in KeyValues
    /\ options = DefaultOptions
    /\ out = <<>>
    /\ pc = "ready"

EncodeKeyCall == EncodeWith(ScalarOptions)

NextKey == EncodeKeyCall

SpecKey == InitKey /\ [][NextKey]_vars

----------------------------------------------------------------------------
(* encode on arrays of rows: every array of up to MaxRows elements, each   *)
(* an object of up to two entries (keys in every order the language can    *)
(* produce, one of them integer-like) or a number.                        *)

MaxRows == 2

KeySeven == <<"7">>

RowKeyPool == {KeyK, KeyName, KeySeven}

CellPool ==
    {Null, Num(7), Str(TextComma), Obj(<<<<KeyK, Num(7)>>>>), Arr(<<Num(7)>>)}

\* the object literal {k1: v1, k2: v2}: integer-like keys come first
RowObjects ==
    {Obj(<<>>)}
    \cup {Obj(<<<<k, v>>>>) : k \in RowKeyPool, v \in CellPool}
    \cup {Obj(Put(<<<<k1, v1>>>>, k2, v2)) :
            k1 \in RowKeyPool, k2 \in RowKeyPool \ {KeySeven}, v1 \in CellPool, v2 \in CellPool}

RowItems == RowObjects \cup {Num(7)}

KeyUnderscore == <<"_">>
KeyDefineGetter == <<"d", "e", "f", "i", "n", "e", "G", "e", "t", "t", "e", "r", "_", "_">>

\* rows whose flattened key _ + _ + defineGetter__ names an inherited function
PrototypeFixtures ==
    {Arr(<<Obj(<<<<KeyUnderscore, Obj(<<<<KeyDefineGetter, Num(7)>>>>)>>>>),
           Obj(<<<<KeyK, Num(7)>>>>)>>)}

RowValues ==
    PrototypeFixtures
    \cup {Arr(items) : items \in UNION {[1..n -> RowItems] : n \in 0..MaxRows}}

\* the options an array's rendering is examined under
RowOptions == {o \in Options : ~o.readable /\ ~o.compactBooleans}

InitRows ==
    /\ value \in RowValues
    /\ options = DefaultOptions
    /\ out = <<>>
    /\ pc = "ready"

EncodeRowsCall == EncodeWith(RowOptions)

NextRows == EncodeRowsCall

SpecRows == InitRows /\ [][NextRows]_vars

----------------------------------------------------------------------------
(* Reading an output text back: the operations the properties speak of.    *)

StripSpaces(str) == SelectSeq(str, LAMBDA c : c # " ")

CountChar(str, c) == Cardinality({i \in 1..Len(str) : str[i] = c})

StartsWith(str, pre) == Len(str) >= Len(pre) /\ SubSeq(str, 1, Len(pre)) = pre

\* the text after the first occurrence of c (empty if there is none)
AfterFirst(str, c) ==
    IF Includes(str, c)
    THEN SubSeq(str, 1 + (CHOOSE i \in 1..Len(str) :
                            str[i] = c /\ \A j \in 1..(i - 1) : str[j] # c), Len(str))
    ELSE <<>>

\* commas of str from position i on that lie outside "..." and outside { }
RECURSIVE TopLevelCommas(_, _, _, _)
TopLevelCommas(str, i, inQuote, depth) ==
    IF i > Len(str) THEN 0
    ELSE IF inQuote
    THEN IF str[i] = "\\" THEN TopLevelCommas(str, i + 2, TRUE, depth)
         ELSE TopLevelCommas(str, i + 1, str[i] # "\"", depth)
    ELSE CASE str[i] = "\"" -> TopLevelCommas(str, i + 1, TRUE, depth)
           [] str[i] = "{" -> TopLevelCommas(str, i + 1, FALSE, depth + 1)
           [] str[i] = "}" -> TopLevelCommas(str, i + 1, FALSE, depth - 1)
           [] str[i] = "," /\ depth = 0 -> 1 + TopLevelCommas(str, i + 1, FALSE, depth)
           [] OTHER -> TopLevelCommas(str, i + 1, FALSE, depth)

\* the number of elements a reader of the list form [N]body finds in body
ListElements(str) ==
    LET body == AfterFirst(str, "]")
    IN  IF body = <<>> THEN 0 ELSE 1 + TopLevelCommas(body, 1, FALSE, 0)

\* str split at every occurrence of the character c
RECURSIVE Split(_, _)
Split(str, c) ==
    IF ~Includes(str, c) THEN <<str>>
    ELSE LET i == CHOOSE i \in 1..Len(str) : str[i] = c /\ \A j \in 1..(i - 1) : str[j] # c
         IN  <<SubSeq(str, 1, i - 1)>> \o Split(SubSeq(str, i + 1, Len(str)), c)

\* the branch of encodeArray a non-empty array takes
TakesFlatten(items, opts) ==
    opts.tabular /\ opts.flatten /\ \A i \in 1..Len(items) : isPlainObject(items[i])

TakesTabular(items, opts) ==
    TakesFlatten(items, opts) \/ (opts.tabular /\ isUniform(items))

TakesList(items, opts) == Len(items) > 0 /\ ~TakesTabular(items, opts)

\* a key that no quoting rule touches
PlainKey(key) ==
    /\ key # <<>>
    /\ ~IncludesAny(key, {" ", ",", "|", "\t", "\"", "\n"} \cup Structural)
    /\ ~IsLiteralShaped(key)

Done == pc = "done"

----------------------------------------------------------------------------
(* Two calls in a row: after encode(value, options) has returned, the      *)
(* caller calls encode again with the same two objects, as the first call  *)
(* left them.                                                              *)

\* faulty variant: the tabular renderer stores its defaulted delimiter in
\* the caller's record
CallerOptionsDefaulted(v, opts) ==
    IF opts.tabular /\ isArray(v) /\ Len(Payload(v)) > 0
       /\ (TakesFlatten(Payload(v), opts) \/ isUniform(Payload(v)))
    THEN [opts EXCEPT !.delimiter = TabularDelimiter(opts)]
    ELSE opts

\* the caller's options record once encode(v, opts) has returned: the only
\* write that involves the options, the defaulted delimiter of the tabular
\* renderer, goes to the copy { ...options, delimiter }
CallerOptions(v, opts) == opts

\* faulty variant: the flatten branch merges the flattened keys into the
\* elements of the caller's array
CallerValueFlattened(v, opts) ==
    IF isArray(v) /\ Len(Payload(v)) > 0 /\ TakesFlatten(Payload(v), opts)
    THEN Arr([i \in 1..Len(Payload(v)) |->
                Obj(flattenObject(Payload(Payload(v)[i]), <<>>, DefaultMaxArrayDepth))])
    ELSE v

\* the caller's value once encode(v, opts) has returned: flattenObject
\* writes to its own new object (flattened), the backfill to its own new
\* object (result), and nothing else is assigned to
CallerValue(v, opts) == v

TwiceValues ==
    ScalarPool \cup Fixtures \cup PrototypeFixtures
    \cup UNION {Level(d) : d \in 0..(MaxDepth - 1)}

InitTwice ==
    /\ value \in TwiceValues
    /\ options = DefaultOptions
    /\ out = <<>>
    /\ pc = "ready"

\* the second call, on the caller's objects as the first call left them
EncodeAgain ==
    /\ pc = "done"
    /\ value' = CallerValue(value, options)
    /\ options' = CallerOptions(value, options)
    /\ out' = encode(CallerValue(value, options), CallerOptions(value, options))
    /\ pc' = "again"

NextTwice == EncodeCall \/ EncodeAgain

SpecTwice == InitTwice /\ [][NextTwice]_vars

\* control leaves the position it is at: the call that is due is made and
\* comes back
Returns ==
    \/ pc = "ready" /\ pc' = "done"
    \/ pc = "done" /\ pc' = "again"

\* encode is synchronous and nothing else runs: a call that is due is made,
\* and it runs until it returns or raises
SpecTotal == InitTwice /\ [][NextTwice]_vars /\ WF_pc(Returns)

----------------------------------------------------------------------------
(* Properties.                                                             *)

\* C1 (count honesty): whenever encode renders a non-empty array in the list
\* form [N]body, splitting body at the commas outside quotes and outside
\* braces yields exactly as many elements as the array has.
C1_CountHonesty ==
    (Done /\ isArray(value) /\ TakesList(Payload(value), options))
        => ListElements(out) = Len(Payload(value))

\* the pair of an entry as C2 states it: a list-form array follows its key
C2_Pair(key, v, opts) ==
    IF isArray(v) /\ TakesList(Payload(v), opts)
    THEN encodedKey(key) \o encodeList(Payload(v), opts)
    ELSE encodePair(key, v, opts)

\* C2: every entry of an object whose value is a non-empty array rendered in
\* list form is emitted as the encoded key immediately followed by the list
\* form; the key is never left out of such an entry.
C2_KeyBeforeList ==
    (Done /\ isPlainObject(value))
        => out = Join([i \in 1..Len(Payload(value)) |->
                          C2_Pair(Payload(value)[i][1], Payload(value)[i][2], options)],
                      IF options.readable THEN <<",", " ">> ELSE <<",">>)

\* the value of the single entry k of an object (C3's encode({k: s}))
IsEntryOfString == isPlainObject(value) /\ Len(Payload(value)) = 1
                   /\ Payload(value)[1][1] = KeyK /\ Tag(Payload(value)[1][2]) = "str"

EntryString == Payload(Payload(value)[1][2])

\* the rendering of s in the output k:s (k: s when readable)
EntryToken ==
    LET rest == AfterFirst(out, ":")
    IN  IF options.readable /\ rest # <<>> THEN Tail(rest) ELSE rest

MustQuote(s, opts) ==
    \/ Includes(s, PrimitiveDelimiter(opts))
    \/ IncludesAny(s, {":", "[", "]", "{", "}"})
    \/ IsLiteralShaped(s)

IsQuotedTokenOf(token, s) ==
    /\ Len(token) >= Len(s) + 2
    /\ token[1] = "\""
    /\ token[Len(token)] = "\""

\* C3 (quoting necessity): in encode({k: s}), a string s that contains the
\* active delimiter character, a colon or one of [ ] { }, or that is exactly
\* true, false, null or a numeric literal, is rendered as a double-quoted token.
C3_QuotingNecessity ==
    (Done /\ IsEntryOfString /\ MustQuote(EntryString, options))
        => IsQuotedTokenOf(EntryToken, EntryString)

C3_Witness ==
    /\ Done /\ IsEntryOfString
    /\ options.delimiter = "|"
    /\ EntryString = <<"a", "|">>
    /\ out = <<"k", ":", "\"", "a", "|", "\"">>

\* the numbers whose rendering C4 compares a string's rendering with
MaxNum == 12

\* C4: the rendering of a string value is never the rendering, under the
\* same options, of null, of true, of false or of a number.
C4_StringNotOtherPrimitive ==
    (Done /\ Tag(value) = "str")
        => /\ out # encode(Null, options)
           /\ out # encode(Bool(TRUE), options)
           /\ out # encode(Bool(FALSE), options)
           /\ \A n \in (0 - MaxNum)..MaxNum : out # encode(Num(n), options)

NumLines(str) == 1 + CountChar(str, "\n")

IsEntryOfArray == isPlainObject(value) /\ Len(Payload(value)) = 1
                  /\ isArray(Payload(value)[1][2])

EntryKey == Payload(value)[1][1]

EntryItems == Payload(Payload(value)[1][2])

\* C5 (uniform tabular row count): a uniform array of N objects rendered
\* tabularly is N+1 lines when it is the top-level value (the column names,
\* then N rows) and a header line followed by N rows when it is the value of
\* a key, whatever its cells hold.
C5_TabularRowCount ==
    /\ (Done /\ isArray(value) /\ options.tabular /\ isUniform(Payload(value)))
            => NumLines(out) = Len(Payload(value)) + 1
    /\ (Done /\ IsEntryOfArray /\ options.tabular /\ isUniform(EntryItems))
            => NumLines(out) = Len(EntryItems) + 1

\* C6 (readable mode changes only spaces): the outputs with readable on and
\* with readable off are the same text once every space is deleted.
C6_ReadableOnlySpaces ==
    Done => StripSpaces(out)
            = StripSpaces(encode(value, [options EXCEPT !.readable = ~options.readable]))

C6_Witness ==
    /\ Done /\ options.readable
    /\ value = Obj(<<<<KeyK, Num(7)>>, <<KeyName, Arr(<<Str(TextSpace), Num(7)>>)>>>>)
    /\ out # encode(value, [options EXCEPT !.readable = FALSE])
    /\ Includes(StripSpaces(out), "7")

\* C7 (keyed tabular format): a uniform array of N objects with keys k1..km
\* that is the value of key K (tabular on, flatten off) renders as
\* K[N]{k1,..,km}: then a newline, then the N rows joined by newlines, each
\* row its m cells joined by the delimiter (the tab when none is set).
C7_KeyedTabularFormat ==
    (Done /\ IsEntryOfArray /\ options.tabular /\ ~options.flatten /\ isUniform(EntryItems))
        => LET keys == uniformKeys(EntryItems)
               delim == IF options.delimiter = "unset" THEN "\t" ELSE options.delimiter
               row(i) == Join([k \in 1..Len(keys) |->
                                 TabularCell(Get(Payload(EntryItems[i]), keys[k]), options)],
                              <<delim>>)
           IN  out = EntryKey \o <<"[">> \o NatToStr(Len(EntryItems)) \o <<"]", "{">>
                     \o Join(keys, <<",">>) \o <<"}", ":", "\n">>
                     \o Join([i \in 1..Len(EntryItems) |-> row(i)], <<"\n">>)

\* the key as C8 states it: the Quoting Oracle is asked for the comma
C8_Key(key) ==
    IF ~Includes(key, " ") /\ ~needsQuoting(key, ",") THEN key ELSE Quoted(key)

\* C8 (key quoting): every pair begins with its key, verbatim when the key
\* has no space and the Quoting Oracle for the comma does not require
\* quoting, in double quotes with embedded quotes escaped otherwise.
C8_KeyQuoting ==
    (Done /\ isPlainObject(value) /\ Len(Payload(value)) = 1)
        => /\ StartsWith(out, C8_Key(EntryKey))
           /\ (C8_Key(EntryKey) = EntryKey /\ EntryKey # <<>>) => out[1] # "\""

\* an entry as C9 states it: K[0] for the empty array, K for the empty object
C9_Pair(key, v, opts) ==
    IF v = Arr(<<>>) THEN key \o <<"[", "0", "]">>
    ELSE IF v = Obj(<<>>) THEN key
    ELSE encodePair(key, v, opts)

IsFlagValue(v) == Tag(v) \in {"null", "undef", "bool"}

C10_Text(v, opts) ==
    IF Tag(v) = "bool"
    THEN IF opts.compactBooleans
         THEN (IF Payload(v) THEN <<"1">> ELSE <<"0">>)
         ELSE (IF Payload(v) THEN <<"t", "r", "u", "e">> ELSE <<"f", "a", "l", "s", "e">>)
    ELSE IF opts.compactNull THEN <<"~">> ELSE <<"n", "u", "l", "l">>

C10_Scalar(v, opts) == IF IsFlagValue(v) THEN C10_Text(v, opts) ELSE encodePrimitive(v, opts)

C10_Cell(v, opts) == IF IsFlagValue(v) THEN C10_Text(v, opts) ELSE TabularCell(v, opts)

AllPrimitive(vs) == \A i \in 1..Len(vs) : IsPrimitive(vs[i])

\* the rows a tabular rendering is made of: the flattened objects when
\* flatten is on, the objects themselves otherwise
C10_Rows(items, opts) ==
    [i \in 1..Len(items) |->
        IF opts.flatten THEN flattenObject(Payload(items[i]), <<>>, DefaultMaxArrayDepth)
        ELSE Payload(items[i])]

\* C10 (compact flags): at the top level, as an object value, as a list
\* element and as a tabular cell, a boolean renders as 1/0 when
\* compactBooleans is set and as true/false otherwise, and null and undefined
\* render as ~ when compactNull is set and as null otherwise.
C10_CompactFlags ==
    /\ (Done /\ IsFlagValue(value)) => out = C10_Text(value, options)
    /\ (Done /\ isPlainObject(value)
             /\ AllPrimitive([i \in 1..Len(Payload(value)) |-> Payload(value)[i][2]]))
        => out = Join([i \in 1..Len(Payload(value)) |->
                          encodedKey(Payload(value)[i][1]) \o <<":">>
                          \o (IF options.readable THEN <<" ">> ELSE <<>>)
                          \o C10_Scalar(Payload(value)[i][2], options)],
                      IF options.readable THEN <<",", " ">> ELSE <<",">>)
    /\ (Done /\ isArray(value) /\ Len(Payload(value)) > 0 /\ AllPrimitive(Payload(value)))
        => out = <<"[">> \o NatToStr(Len(Payload(value))) \o <<"]">>
                 \o (IF options.readable THEN <<" ">> ELSE <<>>)
                 \o Join([i \in 1..Len(Payload(value)) |->
                            C10_Scalar(Payload(value)[i], options)],
                         IF options.readable THEN <<",", " ">> ELSE <<",">>)
    /\ (Done /\ isArray(value) /\ options.tabular /\ isUniform(Payload(value)))
        => LET rows == C10_Rows(Payload(value), options)
           IN  AfterFirst(out, "\n")
               = Join([i \in 1..Len(rows) |->
                         Join([k \in 1..Len(rows[i]) |-> C10_Cell(rows[i][k][2], options)],
                              <<TabularDelimiter(options)>>)],
                      <<"\n">>)

C10_Witness ==
    /\ Done /\ options.compactBooleans /\ ~options.compactNull
    /\ value = Arr(<<Obj(<<<<KeyK, Num(7)>>, <<KeyName, Bool(FALSE)>>>>),
                     Obj(<<<<KeyK, Num(7)>>, <<KeyName, Bool(FALSE)>>>>)>>)
    /\ options.delimiter = "|" /\ ~options.flatten /\ options.tabular
    /\ out = <<"k", "|", "n", "a", "m", "e", "\n", "7", "|", "0", "\n", "7", "|", "0">>

\* uniformity as C11 states it
C11_Uniform(items) ==
    /\ Len(items) > 0
    /\ \A i \in 1..Len(items) : isPlainObject(items[i])
    /\ \A i \in 1..Len(items) :
        /\ Len(Payload(items[i])) = Len(Payload(items[1]))
        /\ \A j \in 1..Len(Payload(items[1])) :
                \E e \in 1..Len(Payload(items[i])) :
                    Payload(items[i])[e][1] = Payload(items[1])[j][1]
        /\ \A e \in 1..Len(Payload(items[i])) :
                Tag(Payload(items[i])[e][2]) \in {"null", "undef", "str", "num", "bool"}

RECURSIVE C12_FirstSeen(_)
C12_FirstSeen(ks) ==
    IF ks = <<>> THEN <<>>
    ELSE LET before == C12_FirstSeen(SubSeq(ks, 1, Len(ks) - 1))
         IN  IF \E j \in 1..Len(before) : before[j] = ks[Len(ks)]
             THEN before
             ELSE Append(before, ks[Len(ks)])

RECURSIVE C12_Concat(_)
C12_Concat(seqs) == IF seqs = <<>> THEN <<>> ELSE Head(seqs) \o C12_Concat(Tail(seqs))

C12_Flat(items) ==
    [i \in 1..Len(items) |-> flattenObject(Payload(items[i]), <<>>, DefaultMaxArrayDepth)]

\* the columns as C12 states them: the flattened keys of all elements, in
\* element order then key order, each at its first occurrence
C12_Columns(items) ==
    C12_FirstSeen(C12_Concat([i \in 1..Len(items) |-> Keys(C12_Flat(items)[i])]))

\* a row as C12 states it: one cell per column, null where the column is absent
C12_Row(flat, columns, opts) ==
    Join([c \in 1..Len(columns) |->
            IF HasKey(flat, columns[c])
            THEN TabularCell(Get(flat, columns[c]), opts)
            ELSE (IF opts.compactNull THEN <<"~">> ELSE <<"n", "u", "l", "l">>)],
         <<TabularDelimiter(opts)>>)

\* C12 (flatten-mode tabular rendering): with tabular and flatten on, a
\* non-empty array of plain objects renders as the union of the flattened
\* keys in first-seen order, then one row per element with one cell per
\* column, null (null or ~) where an element lacks the column; a reader
\* finds as many rows as the array has elements and, in every row, as many
\* cells as there are columns.
C12_FlattenTabular ==
    (Done /\ isArray(value) /\ Len(Payload(value)) > 0
          /\ TakesFlatten(Payload(value), options))
        => LET items == Payload(value)
               columns == C12_Columns(items)
               lines == Split(out, "\n")
           IN  /\ out = Join(columns, <<TabularDelimiter(options)>>) \o <<"\n">>
                        \o Join([i \in 1..Len(items) |->
                                    C12_Row(C12_Flat(items)[i], columns, options)], <<"\n">>)
               /\ Len(lines) = Len(items) + 1
               /\ Len(columns) > 0
                    => \A i \in 2..Len(lines) :
                          Len(Split(lines[i], TabularDelimiter(options))) = Len(columns)

\* an element of the list form as C13 states it
C13_Element(v, opts) ==
    IF Tag(v) = "arr" THEN encodeArray(Payload(v), <<>>, opts)
    ELSE IF Tag(v) = "obj" THEN <<"{">> \o encodeObject(Payload(v), opts) \o <<"}">>
    ELSE encodePrimitive(v, opts)

\* the list form as C13 states it
C13_List(items, opts) ==
    <<"[">> \o NatToStr(Len(items)) \o <<"]">>
    \o (IF opts.readable THEN <<" ">> ELSE <<>>)
    \o Join([i \in 1..Len(items) |-> C13_Element(items[i], opts)],
            IF opts.readable THEN <<",", " ">> ELSE <<",">>)

\* C13 as stated: every non-empty array that is not uniform renders in the
\* list form [N], a space if readable, and its elements joined by "," (", "
\* if readable).
C13_NonUniformIsList ==
    (Done /\ isArray(value) /\ Len(Payload(value)) > 0 /\ ~isUniform(Payload(value)))
        => out = C13_List(Payload(value), options)

\* C13 (list form of non-uniform arrays), amended: a non-empty array that is
\* not uniform, and that is not an array of plain objects encoded with
\* tabular and flatten both on, renders as [N], a space if readable, and its
\* elements joined by "," (", " if readable): a scalar element as its
\* primitive encoding, an array element as its own rendering with empty key
\* name, an object element as { its encodeObject rendering }.
C13_NonUniformNotFlattenedIsList ==
    (Done /\ isArray(value) /\ Len(Payload(value)) > 0 /\ ~isUniform(Payload(value))
          /\ ~(options.tabular /\ options.flatten
               /\ \A i \in 1..Len(Payload(value)) : Tag(Payload(value)[i]) = "obj"))
        => out = C13_List(Payload(value), options)

C13_Witness ==
    /\ Done /\ options.tabular /\ ~options.flatten /\ ~options.readable
    /\ value = Arr(<<Obj(<<<<KeyK, Obj(<<<<KeyName, Str(TextAB)>>>>)>>>>)>>)
    /\ out = <<"[", "1", "]", "{", "k", "{", "n", "a", "m", "e", ":", "a", "b", "}", "}">>

RECURSIVE C14_Array(_, _)
RECURSIVE C14_Object(_, _)

\* an array as C14 states it: [0] when empty, else the list form, whose
\* array elements are again in this form
C14_Array(items, opts) ==
    IF Len(items) = 0 THEN <<"[", "0", "]">>
    ELSE <<"[">> \o NatToStr(Len(items)) \o <<"]">>
         \o (IF opts.readable THEN <<" ">> ELSE <<>>)
         \o Join([i \in 1..Len(items) |->
                    IF Tag(items[i]) = "arr" THEN C14_Array(Payload(items[i]), opts)
                    ELSE IF Tag(items[i]) = "obj"
                    THEN <<"{">> \o C14_Object(Payload(items[i]), opts) \o <<"}">>
                    ELSE encodePrimitive(items[i], opts)],
                 IF opts.readable THEN <<",", " ">> ELSE <<",">>)

\* an object whose arrays, at every depth, are in the form of C14_Array and
\* whose keys are the keys of the input
C14_Object(entries, opts) ==
    Join([i \in 1..Len(entries) |->
            IF Tag(entries[i][2]) = "arr"
            THEN keyedArray(entries[i][1], C14_Array(Payload(entries[i][2]), opts))
            ELSE IF Tag(entries[i][2]) = "obj"
            THEN keyedObject(entries[i][1], C14_Object(Payload(entries[i][2]), opts))
            ELSE encodedKey(entries[i][1]) \o <<":">>
                 \o (IF opts.readable THEN <<" ">> ELSE <<>>)
                 \o encodePrimitive(entries[i][2], opts)],
         IF opts.readable THEN <<",", " ">> ELSE <<",">>)

\* C14 (tabular disabled): when options.tabular is false every array, at
\* every depth, uniform or not, flatten on or off, is rendered in the list
\* form [N]... ([0] when empty), and every key is the key of the input.
C14_TabularDisabled ==
    (Done /\ ~options.tabular)
        => /\ isArray(value) => out = C14_Array(Payload(value), options)
           /\ isPlainObject(value) => out = C14_Object(Payload(value), options)
           /\ (isArray(value) /\ Len(Payload(value)) > 0)
                => StartsWith(out, <<"[">> \o NatToStr(Len(Payload(value))) \o <<"]">>)

C14_Witness ==
    /\ Done /\ ~options.tabular /\ options.flatten /\ ~options.readable
    /\ value = Arr(<<Obj(<<<<KeyName, Num(7)>>>>), Obj(<<<<KeyName, Num(7)>>>>)>>)
    /\ isUniform(Payload(value))
    /\ out = <<"[", "2", "]", "{", "n", "a", "m", "e", ":", "7", "}", ",",
               "{", "n", "a", "m", "e", ":", "7", "}">>

\* the unkeyed table as C15 states it: the first element's keys joined by
\* the delimiter, a newline, the rows joined by newlines
C15_Table(items, opts) ==
    Join(Keys(Payload(items[1])), <<TabularDelimiter(opts)>>) \o <<"\n">>
    \o Join([i \in 1..Len(items) |->
                TabularRow(Payload(items[i]), Keys(Payload(items[1])), opts)], <<"\n">>)

\* the single element of a top-level array is itself an array
IsListOfOneArray ==
    isArray(value) /\ Len(Payload(value)) = 1 /\ isArray(Payload(value)[1])

\* C15 as stated: a uniform array that is rendered tabularly with an empty
\* key name is the canonical column names joined by the delimiter, a
\* newline, and the data rows joined by newlines.
C15_UnkeyedTabular ==
    (Done /\ options.tabular /\ isArray(value) /\ isUniform(Payload(value)))
        => out = C15_Table(Payload(value), options)

\* C15 (unkeyed tabular format), amended: with tabular on and flatten off, a
\* uniform array encoded with an empty key name (the top-level value, or an
\* element of a list-form array) is the first element's keys joined by the
\* delimiter, a newline, and the data rows joined by newlines, with no
\* [count]{...}: prefix.
C15_UnkeyedTabularNoFlatten ==
    /\ (Done /\ options.tabular /\ ~options.flatten
             /\ isArray(value) /\ isUniform(Payload(value)))
        => out = C15_Table(Payload(value), options)
    /\ (Done /\ options.tabular /\ ~options.flatten
             /\ IsListOfOneArray /\ isUniform(Payload(Payload(value)[1])))
        => out = <<"[", "1", "]">> \o (IF options.readable THEN <<" ">> ELSE <<>>)
                 \o C15_Table(Payload(Payload(value)[1]), options)

C15_Witness ==
    /\ Done /\ options.tabular /\ ~options.flatten /\ options.delimiter = "unset"
    /\ ~options.readable /\ ~options.compactNull
    /\ value = Arr(<<Arr(<<Obj(<<<<KeyName, Null>>>>), Obj(<<<<KeyName, Null>>>>)>>)>>)
    /\ out = <<"[", "1", "]", "n", "a", "m", "e", "\n", "n", "u", "l", "l", "\n",
               "n", "u", "l", "l">>

IsText(str) == \A i \in 1..Len(str) : str[i] # "TypeError"

----------------------------------------------------------------------------
(* The named presets (presets.ts) and the call encode(value, preset).      *)

\* faulty variant: the nested preset without flatten
forLLMNestedUnflattened ==
    [compactBooleans |-> TRUE, compactNull |-> TRUE, delimiter |-> "\t",
     tabular |-> TRUE, flatten |-> FALSE, readable |-> FALSE]

forLLM ==
    [compactBooleans |-> TRUE, compactNull |-> TRUE, delimiter |-> "\t",
     tabular |-> TRUE, flatten |-> FALSE, readable |-> FALSE]

forLLMNested ==
    [compactBooleans |-> TRUE, compactNull |-> TRUE, delimiter |-> "\t",
     tabular |-> TRUE, flatten |-> TRUE, readable |-> FALSE]

forDebugging ==
    [compactBooleans |-> FALSE, compactNull |-> FALSE, delimiter |-> ",",
     tabular |-> TRUE, flatten |-> FALSE, readable |-> TRUE]

forCompatibility ==
    [compactBooleans |-> FALSE, compactNull |-> FALSE, delimiter |-> ",",
     tabular |-> TRUE, flatten |-> FALSE, readable |-> FALSE]

Presets == {forLLM, forLLMNested, forDebugging, forCompatibility}

InitPreset ==
    /\ value \in Values
    /\ options = DefaultOptions
    /\ out = <<>>
    /\ pc = "ready"

EncodePresetCall == EncodeWith(Presets)

NextPreset == EncodePresetCall

SpecPreset == InitPreset /\ [][NextPreset]_vars

\* an options literal with the six fields written out one by one
WrittenOut(cb, cn, d, t, f, r) ==
    [compactBooleans |-> cb, compactNull |-> cn, delimiter |-> d,
     tabular |-> t, flatten |-> f, readable |-> r]

\* C19: forLLM is {true, true, tab, tabular, no flatten, not readable},
\* forLLMNested is forLLM with flatten, forCompatibility is {false, false,
\* comma, tabular, no flatten, not readable}, forDebugging is forCompatibility
\* with readable; every preset sets all six fields, and a call with a preset
\* returns what the call with the same six fields written out returns.
C19_Presets ==
    Done =>
        /\ forLLM = WrittenOut(TRUE, TRUE, "\t", TRUE, FALSE, FALSE)
        /\ forLLMNested = [forLLM EXCEPT !.flatten = TRUE]
        /\ forCompatibility = WrittenOut(FALSE, FALSE, ",", TRUE, FALSE, FALSE)
        /\ forDebugging = [forCompatibility EXCEPT !.readable = TRUE]
        /\ options \in Presets
        /\ options \in Options /\ options.delimiter # "unset"
        /\ out = encode(value, WrittenOut(options.compactBooleans, options.compactNull,
                                          options.delimiter, options.tabular,
                                          options.flatten, options.readable))
        /\ options = forLLM
            => out = encode(value, WrittenOut(TRUE, TRUE, "\t", TRUE, FALSE, FALSE))
        /\ options = forLLMNested
            => out = encode(value, WrittenOut(TRUE, TRUE, "\t", TRUE, TRUE, FALSE))
        /\ options = forDebugging
            => out = encode(value, WrittenOut(FALSE, FALSE, ",", TRUE, FALSE, TRUE))
        /\ options = forCompatibility
            => out = encode(value, WrittenOut(FALSE, FALSE, ",", TRUE, FALSE, FALSE))

\* encode([{k: 7, name: true}], forLLMNested): flattened, tab, compact
C19_Witness ==
    /\ Done
    /\ options = forLLMNested
    /\ value = Arr(<<Obj(<<<<KeyK, Num(7)>>, <<KeyName, Bool(TRUE)>>>>)>>)
    /\ out = <<"k", "\t", "n", "\n", "7", "\t", "1">>


\* str[i..j] is one or more decimal digits
C20_Digits(str, i, j) == i <= j /\ \A k \in i..j : str[k] \in Digit

\* str from index c to its end is an exponent: e or E, an optional sign, digits
C20_Exponent(str, c) ==
    /\ c <= Len(str)
    /\ str[c] \in {"e", "E"}
    /\ \/ C20_Digits(str, c + 1, Len(str))
       \/ c + 1 <= Len(str) /\ str[c + 1] \in {"+", "-"} /\ C20_Digits(str, c + 2, Len(str))

\* the numeric-literal grammar: an optional leading -, digits, an optional
\* .digits, an optional exponent, and nothing else
C20_Numeric(str) ==
    \E first \in 1..2 : \E int \in first..Len(str) : \E frac \in int..Len(str) :
        /\ first = 2 => str[1] = "-"
        /\ C20_Digits(str, first, int)
        /\ frac > int => (str[int + 1] = "." /\ C20_Digits(str, int + 2, frac))
        /\ frac < Len(str) => C20_Exponent(str, frac + 1)

\* the reference predicate
C20_Reference(str, delimiter) ==
    \/ str = <<>>
    \/ str \in {<<"t", "r", "u", "e">>, <<"f", "a", "l", "s", "e">>, <<"n", "u", "l", "l">>}
    \/ C20_Numeric(str)
    \/ /\ delimiter = "\t"
       /\ \E i \in 1..Len(str) : str[i] \in {"\t", "|", ":", "[", "]", "{", "}"}
    \/ /\ delimiter \in {",", "|"}
       /\ \E i \in 1..Len(str) : str[i] \in {delimiter, ":", "[", "]", "{", "}", " "}

\* C20: for every string and each of the delimiters tab, comma and pipe,
\* needsQuoting is true exactly when the string is empty, or is exactly true,
\* false, null or a numeric literal, or (tab) holds a tab, a pipe or one of
\* : [ ] { }, or (comma, pipe) holds that delimiter, one of : [ ] { } or a
\* space; encode renders the string in quotes exactly in these cases, so a
\* string with spaces and none of the listed characters stays bare under tab.
C20_QuotingReference ==
    (Done /\ Tag(value) = "str")
        => /\ \A d \in {"\t", ",", "|"} :
                needsQuoting(Payload(value), d) <=> C20_Reference(Payload(value), d)
           /\ out = IF C20_Reference(Payload(value), PrimitiveDelimiter(options))
                    THEN Quoted(Payload(value)) ELSE Payload(value)

\* encode('a a', {delimiter: '\t'}) is a a, without quotes
C20_Witness ==
    /\ Done
    /\ options.delimiter = "\t"
    /\ value = Str(<<"a", " ", "a">>)
    /\ out = <<"a", " ", "a">>

----------------------------------------------------------------------------
(* Tables read back cell by cell.                                          *)

\* the cells a reader finds in a row: the row split at the delimiter c,
\* except inside a token that opens with a double quote; inside such a token
\* a backslash takes the next character with it
RECURSIVE C21_Cells(_, _, _, _, _)
C21_Cells(str, c, i, inQuote, cell) ==
    IF i > Len(str) THEN <<cell>>
    ELSE IF inQuote
    THEN IF str[i] = "\\" /\ i < Len(str)
         THEN C21_Cells(str, c, i + 2, TRUE, cell \o <<str[i], str[i + 1]>>)
         ELSE C21_Cells(str, c, i + 1, str[i] # "\"", Append(cell, str[i]))
    ELSE IF str[i] = c
    THEN <<cell>> \o C21_Cells(str, c, i + 1, FALSE, <<>>)
    ELSE C21_Cells(str, c, i + 1, cell = <<>> /\ str[i] = "\"", Append(cell, str[i]))

\* the columns of the table an array is rendered as
C21_Columns(items, opts) ==
    IF TakesFlatten(items, opts)
    THEN AllKeys(C12_Flat(items), <<>>)
    ELSE uniformKeys(items)

\* the entries row i of the table is rendered from
C21_RowEntries(items, opts, i) ==
    IF TakesFlatten(items, opts)
    THEN Backfill(C12_Flat(items)[i], C21_Columns(items, opts))
    ELSE Payload(items[i])

\* C21 (tabular cells are separable): for each delimiter and every array
\* rendered as a table, each data row, split at the delimiter outside
\* double-quoted tokens, has as many cells as there are columns, and cell j
\* is the rendering of the row's value for column j.
C21_CellsSeparable ==
    (Done /\ isArray(value) /\ Len(Payload(value)) > 0
          /\ TakesTabular(Payload(value), options)
          /\ Len(C21_Columns(Payload(value), options)) > 0)
        => \A i \in 1..Len(Payload(value)) :
              C21_Cells(Split(out, "\n")[i + 1], TabularDelimiter(options), 1, FALSE, <<>>)
                = [j \in 1..Len(C21_Columns(Payload(value), options)) |->
                      TabularCell(Get(C21_RowEntries(Payload(value), options, i),
                                      C21_Columns(Payload(value), options)[j]),
                                  options)]

----------------------------------------------------------------------------
(* encode on one-cell tables: the array of one object whose entry k holds  *)
(* a text of Texts or a scalar.                                            *)

CellValues ==
    {Arr(<<Obj(<<<<KeyK, v>>>>)>>) : v \in {Str(s) : s \in Texts} \cup ScalarPool}

\* the options a table's cells can depend on
CellOptions == {o \in Options : o.tabular /\ ~o.readable}

InitCell ==
    /\ value \in CellValues
    /\ options = DefaultOptions
    /\ out = <<>>
    /\ pc = "ready"

EncodeCellCall == EncodeWith(CellOptions)

NextCell == EncodeCellCall

SpecCell == InitCell /\ [][NextCell]_vars

\* the value rendered in the single cell of encode([{k: v}])
CellValue == Payload(Payload(value)[1])[1][2]

\* the single data row of the output k + newline + row
CellText == AfterFirst(out, "\n")

\* the content between the quotes allows stripping, as C22 states it
C22_MayStrip(content) ==
    /\ \A i \in 1..Len(content) : content[i] \notin {"\t", "\n", "\""}
    /\ content \notin {<<"t", "r", "u", "e">>, <<"f", "a", "l", "s", "e">>,
                       <<"n", "u", "l", "l">>}
    /\ ~C20_Numeric(content)

\* C22 (tabular de-quoting relaxation): a string cell that the primitive
\* encoder rendered in double quotes loses the surrounding quotes exactly
\* when the content between them has no tab, no newline and no double quote
\* and is not exactly true, false, null or a numeric literal, and keeps the
\* quoted form otherwise; the cells of null, booleans and numbers are the
\* primitive encodings, unaltered.
C22_DequotingRelaxation ==
    Done =>
        /\ (Tag(CellValue) = "str"
                /\ needsQuoting(Payload(CellValue), TabularDelimiter(options)))
            => CellText = IF C22_MayStrip(escapeString(Payload(CellValue)))
                          THEN escapeString(Payload(CellValue))
                          ELSE Quoted(Payload(CellValue))
        /\ Tag(CellValue) \in {"null", "undef", "bool", "num"}
            => CellText = encodePrimitive(CellValue, options)

\* encode([{k: 'a,a'}], {delimiter: ','}): the quotes of "a,a" are stripped,
\* and those of "1" in encode([{k: '1'}]) would be kept
C22_Witness ==
    /\ Done
    /\ options.delimiter = ","
    /\ CellValue = Str(<<"a", ",", "a">>)
    /\ encodePrimitive(CellValue, options) = <<"\"", "a", ",", "a", "\"">>
    /\ out = <<"k", "\n", "a", ",", "a">>
    /\ TabularCell(Str(<<"1">>), options) = <<"\"", "1", "\"">>

\* C23: a string cell that needsQuoting leaves without quotes under the
\* table's delimiter appears in the row verbatim: the cell text is the
\* string itself, so it is never empty and never the cell of another such
\* string (strings that begin and end with a double quote included).
C23_UnquotedCellVerbatim ==
    (Done /\ Tag(CellValue) = "str"
          /\ ~needsQuoting(Payload(CellValue), TabularDelimiter(options)))
        => /\ CellText = Payload(CellValue)
           /\ CellText # <<>>

\* the quoted form as C24 states it: a double quote, the characters of s
\* with backslash + double quote in place of every double quote, a double quote
C24_Token(s) ==
    <<"\"">>
    \o C12_Concat([i \in 1..Len(s) |-> IF s[i] = "\"" THEN <<"\\", "\"">> ELSE <<s[i]>>])
    \o <<"\"">>

\* C24 (quoted form): whenever the Quoting Oracle requires quoting of a
\* string, as the top-level value, as the value of an entry or as the key of
\* an entry, the output token is a double quote, the string with every
\* double quote replaced by backslash + double quote and every other
\* character unchanged, and a double quote.
C24_QuotedForm ==
    /\ (Done /\ Tag(value) = "str"
             /\ needsQuoting(Payload(value), PrimitiveDelimiter(options)))
        => out = C24_Token(Payload(value))
    /\ (Done /\ IsEntryOfString
             /\ needsQuoting(EntryString, PrimitiveDelimiter(options)))
        => EntryToken = C24_Token(EntryString)
    /\ (Done /\ isPlainObject(value) /\ Len(Payload(value)) = 1
             /\ needsQuoting(EntryKey, "\t"))
        => StartsWith(out, C24_Token(EntryKey))

\* the table as C25 states it: the first element's keys in their order,
\* then for every element the renderings of its values for these keys
C25_Table(items, opts) ==
    Join([j \in 1..Len(Payload(items[1])) |-> Payload(items[1])[j][1]],
         <<TabularDelimiter(opts)>>)
    \o <<"\n">>
    \o Join([i \in 1..Len(items) |->
                Join([j \in 1..Len(Payload(items[1])) |->
                         TabularCell(Get(Payload(items[i]), Payload(items[1])[j][1]), opts)],
                     <<TabularDelimiter(opts)>>)],
            <<"\n">>)

----------------------------------------------------------------------------
(* encode in flatten mode on one-row arrays: the row is an object nested   *)
(* up to MaxFlatDepth containers deep, over the keys of the shortening     *)
(* tables, a key outside them and the empty key.                           *)

MaxFlatDepth == 4

KeyItems == <<"i", "t", "e", "m", "s">>
KeyItem == <<"i", "t", "e", "m">>
KeySku == <<"s", "k", "u">>
KeyCustomer == <<"c", "u", "s", "t", "o", "m", "e", "r">>
KeyQuantity == <<"q", "u", "a", "n", "t", "i", "t", "y">>
KeyPrice == <<"p", "r", "i", "c", "e">>
KeyOrderId == <<"o", "r", "d", "e", "r", "I", "d">>
KeyStatus == <<"s", "t", "a", "t", "u", "s">>
KeyTotal == <<"t", "o", "t", "a", "l">>
KeyEmail == <<"e", "m", "a", "i", "l">>

FlatKeyPool == {KeyItems, KeyItem, KeySku, KeyCustomer, KeyName, KeyK, KeyEmpty}

FlatLeaves == {Null, Num(7), Str(TextAB)}

\* the containers built around one value: an entry under each key, the
\* sibling entries item and items, and arrays of it
FlatWraps(v) ==
    {Obj(<<<<k, v>>>>) : k \in FlatKeyPool}
    \cup {Obj(<<<<KeyItem, Num(7)>>, <<KeyItems, v>>>>)}
    \cup {Arr(<<v>>), Arr(<<v, Num(7)>>)}

FlatSpineWraps(v) ==
    {Obj(<<<<KeyItems, v>>>>), Obj(<<<<KeyCustomer, v>>>>), Obj(<<<<KeyEmpty, v>>>>),
     Arr(<<v>>)}

RECURSIVE FlatLevel(_)
FlatLevel(d) ==
    IF d = 0 THEN FlatLeaves \cup {Arr(<<>>), Obj(<<>>)}
    ELSE IF d <= 2 THEN UNION {FlatWraps(v) : v \in FlatLevel(d - 1)}
    ELSE UNION {FlatSpineWraps(v) : v \in FlatLevel(d - 1)}

\* the row of the documented example (src/docs/BENCHMARK_RESULTS.md)
OrderRow ==
    Obj(<<<<KeyOrderId, Str(TextAB)>>,
          <<KeyCustomer, Obj(<<<<KeyName, Str(TextAB)>>, <<KeyEmail, Str(TextAB)>>>>)>>,
          <<KeyItems, Arr(<<Obj(<<<<KeySku, Str(TextAB)>>, <<KeyQuantity, Num(7)>>,
                                  <<KeyPrice, Num(7)>>>>)>>)>>,
          <<KeyTotal, Num(7)>>,
          <<KeyStatus, Str(TextAB)>>>>)

FlatRows ==
    {OrderRow} \cup {v \in UNION {FlatLevel(d) : d \in 0..MaxFlatDepth} : isPlainObject(v)}

FlatValues == {Arr(<<row>>) : row \in FlatRows}

\* the options the flatten branch is examined under
FlatOptions ==
    {o \in Options : o.tabular /\ o.flatten /\ ~o.readable /\ ~o.compactBooleans}

InitFlat ==
    /\ value \in FlatValues
    /\ options = DefaultOptions
    /\ out = <<>>
    /\ pc = "ready"

EncodeFlatCall == EncodeWith(FlatOptions)

NextFlat == EncodeFlatCall

SpecFlat == InitFlat /\ [][NextFlat]_vars

\* the entries of the single row of the array
FlatRow == Payload(Payload(value)[1])

RECURSIVE C26_Names(_, _, _, _)
RECURSIVE C26_Under(_, _, _)
RECURSIVE C26_Element(_, _, _)

\* the name of a leaf as C26 states it: the shortened keys on the path,
\* joined with _ (named: the path so far is not empty)
C26_Join(named, name, shortKey) ==
    IF named THEN name \o <<"_">> \o shortKey ELSE shortKey

\* the leaves below the entries of an object, each with its name, in
\* depth-first order
C26_Names(entries, named, name, budget) ==
    C12_Concat([e \in 1..Len(entries) |->
                   C26_Under(C26_Join(named, name, shortenKey(entries[e][1], name)),
                             entries[e][2], budget)])

\* the leaves below an element of a nested array
C26_SubElement(name, sub, budget) ==
    IF isPlainObject(sub) THEN C26_Names(Payload(sub), TRUE, name, budget - 1)
    ELSE <<<<name, sub>>>>

\* the leaves below an element of an array
C26_Element(name, item, budget) ==
    IF isPlainObject(item) THEN C26_Names(Payload(item), TRUE, name, budget - 1)
    ELSE IF isArray(item)
    THEN C12_Concat([j \in 1..Len(Payload(item)) |->
                        C26_SubElement(name \o <<"_">> \o NatToStr(j - 1),
                                       Payload(item)[j], budget)])
    ELSE <<<<name, item>>>>

\* the leaves below the value of an entry
C26_Under(name, v, budget) ==
    IF isPlainObject(v) THEN C26_Names(Payload(v), TRUE, name, budget)
    ELSE IF isArray(v) /\ Len(Payload(v)) > 0 /\ budget > 0
    THEN C12_Concat([i \in 1..Len(Payload(v)) |->
                        C26_Element(name \o NatToStr(i - 1), Payload(v)[i], budget)])
    ELSE <<<<name, v>>>>

\* the depth budgets flattenObject is examined with
C26_Budgets == {0, 1, 2, DefaultMaxArrayDepth}

\* the columns of the documented example
OrderColumns ==
    <<<<"o", "i", "d">>, <<"c", "_", "n">>, <<"c", "_", "e">>, <<"i", "0", "_", "s">>,
      <<"i", "0", "_", "q">>, <<"i", "0", "_", "p">>, <<"t">>, <<"s", "t">>>>

\* C26 (flattened key construction): flattenObject stores every leaf under
\* the shortened keys of its path joined with _, with an array index appended
\* to the array's shortened key and a sub-index as _ + subIndex; a nested
\* object is recursed with the same depth budget, an array of objects with
\* the budget decreased by one; the row of the documented example has the
\* columns oid, c_n, c_e, i0_s, i0_q, i0_p, t, st in that order.
C26_FlattenedKeys ==
    Done =>
        /\ \A budget \in C26_Budgets :
              flattenObject(FlatRow, <<>>, budget)
                = Assign(<<>>, C26_Names(FlatRow, FALSE, <<>>, budget))
        /\ value = Arr(<<OrderRow>>)
            => /\ Keys(flattenObject(FlatRow, <<>>, DefaultMaxArrayDepth)) = OrderColumns
               /\ StartsWith(out, Join(OrderColumns, <<TabularDelimiter(options)>>) \o <<"\n">>)

\* the cell of a flattened value as C27 states it: a stored array is the
\* null token (or, with empty, the empty text), anything else its cell
C27_Cell(v, opts, empty) ==
    IF isArray(v)
    THEN (IF empty THEN <<>> ELSE encodePrimitive(Null, opts))
    ELSE TabularCell(v, opts)

\* the data row of the flattened single row as C27 states it
C27_Row(flat, opts, empty) ==
    Join([j \in 1..Len(flat) |-> C27_Cell(flat[j][2], opts, empty)],
         <<TabularDelimiter(opts)>>)

\* C27 (flattened cells are primitive): in flatten mode every value that
\* reaches a cell is null, a boolean, a number, a string or an array the
\* flattener stored verbatim, and such an array is rendered as the null or
\* empty case, never as the text of its elements.
C27_FlattenedCellsPrimitive ==
    Done =>
        /\ \A j \in 1..Len(flattenObject(FlatRow, <<>>, DefaultMaxArrayDepth)) :
              \/ IsPrimitive(flattenObject(FlatRow, <<>>, DefaultMaxArrayDepth)[j][2])
              \/ isArray(flattenObject(FlatRow, <<>>, DefaultMaxArrayDepth)[j][2])
        /\ \E empty \in BOOLEAN :
              out = Join(Keys(flattenObject(FlatRow, <<>>, DefaultMaxArrayDepth)),
                         <<TabularDelimiter(options)>>)
                    \o <<"\n">>
                    \o C27_Row(flattenObject(FlatRow, <<>>, DefaultMaxArrayDepth),
                               options, empty)

RECURSIVE C28_Leaves(_, _, _)
RECURSIVE C28_Under(_, _, _)
RECURSIVE C28_Element(_, _, _)

\* the source paths of an object in depth-first order, each as the pair of
\* the key it flattens to and the value it leads to
C28_Leaves(entries, prefix, budget) ==
    C12_Concat([e \in 1..Len(entries) |->
                   C28_Under(NewKey(prefix, shortenKey(entries[e][1], prefix)),
                             entries[e][2], budget)])

C28_SubElement(flatKey, sub, budget) ==
    IF isPlainObject(sub) THEN C28_Leaves(Payload(sub), flatKey, budget - 1)
    ELSE <<<<flatKey, sub>>>>

C28_Element(itemKey, item, budget) ==
    IF isPlainObject(item) THEN C28_Leaves(Payload(item), itemKey, budget - 1)
    ELSE IF isArray(item)
    THEN C12_Concat([j \in 1..Len(Payload(item)) |->
                        C28_SubElement(itemKey \o <<"_">> \o NatToStr(j - 1),
                                       Payload(item)[j], budget)])
    ELSE <<<<itemKey, item>>>>

C28_Under(newKey, v, budget) ==
    IF isPlainObject(v) THEN C28_Leaves(Payload(v), newKey, budget)
    ELSE IF isArray(v) /\ Len(Payload(v)) > 0 /\ budget > 0
    THEN C12_Concat([i \in 1..Len(Payload(v)) |->
                        C28_Element(newKey \o NatToStr(i - 1), Payload(v)[i], budget)])
    ELSE <<<<newKey, v>>>>

\* the positions of the paths that flatten to key
C28_Paths(leaves, key) == {p \in 1..Len(leaves) : leaves[p][1] = key}

\* the last of a non-empty set of positions
C28_Last(ps) == CHOOSE p \in ps : \A q \in ps : q <= p

\* flat is leaves with one entry per key, holding the value of the last
\* path that flattens to the key
C28_LastWins(flat, leaves) ==
    /\ \A p \in 1..Len(leaves) : HasKey(flat, leaves[p][1])
    /\ \A j \in 1..Len(flat) :
          /\ C28_Paths(leaves, flat[j][1]) # {}
          /\ flat[j][2] = leaves[C28_Last(C28_Paths(leaves, flat[j][1]))][2]
          /\ \A i \in 1..Len(flat) : flat[i][1] = flat[j][1] => i = j

\* some key is reached by two paths
C28_Collides(leaves) ==
    \E p, q \in 1..Len(leaves) : p # q /\ leaves[p][1] = leaves[q][1]

\* C28 (flatten collisions overwrite silently): when two source paths of one
\* object flatten to the same key, flattenObject raises no error and returns
\* a mapping with a single entry for that key, whose value is the one of the
\* path met later in depth-first order.
C28_CollisionsOverwrite ==
    Done => C28_LastWins(flattenObject(FlatRow, <<>>, DefaultMaxArrayDepth),
                         C28_Leaves(FlatRow, <<>>, DefaultMaxArrayDepth))

\* encode([{item: 7, items: 'ab'}], {flatten: true}): both keys shorten to i
C28_Witness ==
    /\ Done
    /\ options.delimiter = "unset"
    /\ value = Arr(<<Obj(<<<<KeyItem, Num(7)>>, <<KeyItems, Str(TextAB)>>>>)>>)
    /\ C28_Collides(C28_Leaves(FlatRow, <<>>, DefaultMaxArrayDepth))
    /\ flattenObject(FlatRow, <<>>, DefaultMaxArrayDepth) = <<<<<<"i">>, Str(TextAB)>>>>
    /\ out = <<"i", "\n", "a", "b">>

----------------------------------------------------------------------------
(* encode in flatten mode on rows {key: 7} and {context: {key: 7}}: every  *)
(* key of the shortening tables and keys outside them, under every context *)
(* a prefix can be.                                                        *)

KeyConstructor == <<"c", "o", "n", "s", "t", "r", "u", "c", "t", "o", "r">>
KeyToString == <<"t", "o", "S", "t", "r", "i", "n", "g">>
KeyId == <<"i", "d">>

\* the keys shortenKey is called with
ShortenKeys ==
    {KeyItems, KeyItem, KeySku, KeyCustomer, KeyQuantity, KeyPrice, KeyOrderId,
     KeyStatus, KeyTotal, KeyName, KeyEmail,
     KeyK, KeyId, KeySpace, KeyEmpty, <<"i">>, <<"N", "a", "m", "e">>,
     KeyConstructor, KeyToString}

\* the keys whose shortened form is the context
ContextKeys == {KeyK, KeyItems, KeyCustomer, KeySku, KeyName, KeyId, KeySpace}

ShortenRows ==
    {Obj(<<<<key, Num(7)>>>>) : key \in ShortenKeys}
    \cup {Obj(<<<<c, Obj(<<<<key, Num(7)>>>>)>>>>) : c \in ContextKeys, key \in ShortenKeys}

ShortenValues == {Arr(<<row>>) : row \in ShortenRows}

InitShorten ==
    /\ value \in ShortenValues
    /\ options = DefaultOptions
    /\ out = <<>>
    /\ pc = "ready"

EncodeShortenCall == EncodeWith(FlatOptions)

NextShorten == EncodeShortenCall

SpecShorten == InitShorten /\ [][NextShorten]_vars

\* the row has the shape {context: {key: 7}}
HasContext == isPlainObject(FlatRow[1][2])

\* the key shortenKey is called with last, and the key of its context
ShortenedKey == IF HasContext THEN Payload(FlatRow[1][2])[1][1] ELSE FlatRow[1][1]

ContextKey == FlatRow[1][1]

\* the table as C29 states it
C29_Short(key, context) ==
    CASE key \in {KeyItems, KeyItem} -> <<"i">>
      [] key = KeyCustomer -> <<"c">>
      [] key = KeyQuantity -> <<"q">>
      [] key = KeyPrice -> <<"p">>
      [] key = KeyOrderId -> <<"o", "i", "d">>
      [] key = KeyStatus -> <<"s", "t">>
      [] key = KeyTotal -> <<"t">>
      [] key = KeyName -> <<"n">>
      [] key = KeyEmail -> <<"e">>
      [] key = KeySku -> (IF \E i \in 1..Len(context) : context[i] = "i"
                          THEN <<"s">> ELSE KeySku)
      [] OTHER -> key

\* the contexts shortenKey is examined under
C29_Contexts ==
    {<<>>, <<"i">>, <<"i", "0">>, <<"c">>, <<"c", "_", "i", "1">>, <<"k">>, KeySku,
     KeyItem, <<"m", "y", " ", "k">>, <<"I">>}

\* C29 (key shortening table): under every context shortenKey maps items
\* and item to i, customer to c, quantity to q, price to p, orderId to oid,
\* status to st, total to t, name to n, email to e, sku to s when the context
\* holds the letter i and to sku otherwise, and every other key to itself;
\* the column of a flattened leaf is built from these shortened keys.
C29_ShorteningTable ==
    Done =>
        /\ \A context \in C29_Contexts :
              shortenKey(ShortenedKey, context) = C29_Short(ShortenedKey, context)
        /\ Keys(flattenObject(FlatRow, <<>>, DefaultMaxArrayDepth))
             = <<IF HasContext
                 THEN NewKey(C29_Short(ContextKey, <<>>),
                             C29_Short(ShortenedKey, C29_Short(ContextKey, <<>>)))
                 ELSE C29_Short(ShortenedKey, <<>>)>>

----------------------------------------------------------------------------
(* Objects read entry by entry.                                            *)

RECURSIVE C30_Object(_, _)

\* the rendering of one entry as C30 states it (an array-valued entry, of
\* which C30 says nothing, is the key with the array's rendering)
C30_Entry(key, v, opts) ==
    IF isArray(v) THEN keyedArray(key, encodeArray(Payload(v), key, opts))
    ELSE IF isPlainObject(v)
    THEN (IF C30_Object(Payload(v), opts) # <<>>
          THEN encodedKey(key) \o <<"{">> \o C30_Object(Payload(v), opts) \o <<"}">>
          ELSE encodedKey(key))
    ELSE encodedKey(key) \o <<":">> \o (IF opts.readable THEN <<" ">> ELSE <<>>)
         \o encodePrimitive(v, opts)

\* the renderings of the entries, in the order of the entries, joined
C30_Object(entries, opts) ==
    Join([i \in 1..Len(entries) |-> C30_Entry(entries[i][1], entries[i][2], opts)],
         IF opts.readable THEN <<",", " ">> ELSE <<",">>)

====
